---- MODULE Spec2Model ----
(***************************************************************************)
(* A model of the sticker alias bot (src/main.py): the per-chat workflow   *)
(* state kept in chat_data, the SQLite store behind the shared connection  *)
(* of the handlers, and the daily trending job with its own connection.    *)
(*                                                                         *)
(* A handler is one action: python-telegram-bot runs one update at a time  *)
(* and the handlers make their database calls synchronously, so a handler  *)
(* is atomic.  The trending job is split at its statements so that an      *)
(* error can end it at any of them; while it is between its two            *)
(* notifications no other handler runs, as in the event loop.              *)
(***************************************************************************)
EXTENDS Integers, Sequences, FiniteSets, TLC

(***************************************************************************)
(* Bounds of the model.                                                    *)
(***************************************************************************)
\* favorite groups offered by the model's keyboard: 1..MaxGroup (the bot offers 1..9)
MaxGroup == 2
\* largest tally a favorite workflow counts up to
MaxTally == 2

Users == {1, 2}
Items == {"Y", "Z"}
FileIds == {"f1", "f2"}
Groups == 1..MaxGroup
\* chat "g" is a group chat of both users, chat "p" the private chat of user 1
Chats == {"g", "p"}
Members == [g |-> Users, p |-> {1}]
\* texts are sequences of characters
Texts == {<<"c">>, <<"d">>}
\* SQL NULL and Python None, for a text column or argument
NULL == <<"NULL">>

VARIABLES
    sticker,        \* TABLE sticker as the shared connection sees it
    favorite,       \* TABLE favorite as the shared connection sees it
    committed,      \* the sticker and favorite rows of the last commit
    chat_data,      \* context.chat_data of every chat: a dict, keys as its DOMAIN
    buttons,        \* the inline keyboards pending in every chat
    wf_user,        \* history: the user whose group a chat's tally was counted for
    reply,          \* what the last handler answered
    user_data,      \* context.user_data of every user
    chosen,         \* TABLE chosen, in the order of insertion
    now,            \* the clock, in ticks
    tables,         \* the committed trending tables: table name -> rows
    job,            \* the trending job and its own connection
    waiting         \* a second invocation of the job, while the first is not over

vars == <<sticker, favorite, committed, chat_data, buttons, wf_user, reply,
          user_data, chosen, now, tables, job, waiting>>

(***************************************************************************)
(* Python dicts.                                                           *)
(***************************************************************************)
EmptyDict == [k \in {} |-> TRUE]
Has(d, k) == k \in DOMAIN d
Put(d, k, v) == [x \in DOMAIN d \cup {k} |-> IF x = k THEN v ELSE d[x]]
\* dict.get(k): None when the key is missing
Get(d, k) == IF k \in DOMAIN d THEN d[k] ELSE "None"

(***************************************************************************)
(* The store: the SQL statements of src/main.py on sets of rows.           *)
(***************************************************************************)
StickerRow(uid, fid, u, a, sa) ==
    [file_unique_id |-> uid, file_id |-> fid, user_id |-> u, alias |-> a, set_alias |-> sa]

FavoriteRow(u, uid, g) == [user_id |-> u, file_unique_id |-> uid, group_no |-> g]

\* as insert_or_update_sticker, with INSERT OR REPLACE INTO sticker for the statement
insert_or_update_sticker_Replace(tbl, uid, fid, u, a, sa) ==
    {r \in tbl : r.file_unique_id /= uid} \cup {StickerRow(uid, fid, u, a, sa)}

\* INSERT ... ON CONFLICT(file_unique_id) DO UPDATE SET user_id=?[, alias=? | , set_alias=?]
insert_or_update_sticker(tbl, uid, fid, u, a, sa) ==
    LET old == {r \in tbl : r.file_unique_id = uid}
        upd(r) == [r EXCEPT !.user_id = u,
                            !.alias = IF a /= NULL THEN a ELSE @,
                            !.set_alias = IF a = NULL /\ sa /= NULL THEN sa ELSE @]
    IN  IF old = {}
        THEN tbl \cup {StickerRow(uid, fid, u, a, sa)}
        ELSE (tbl \ old) \cup {upd(r) : r \in old}

search_sticker_by_unique_id(tbl, uid) == {r \in tbl : r.file_unique_id = uid}

\* as InsertFavoriteError, with PRIMARY KEY (user_id, file_unique_id, group_no)
InsertFavoriteError_KeyWithGroup(stk, fav, u, uid, g) ==
    IF FavoriteRow(u, uid, g) \in fav
    THEN "UNIQUE constraint failed"
    ELSE IF \A s \in stk : s.file_unique_id /= uid
         THEN "FOREIGN KEY constraint failed"
         ELSE "ok"

\* INSERT INTO favorite: the constraint the statement fails on, or "ok"
InsertFavoriteError(stk, fav, u, uid, g) ==
    IF \E r \in fav : r.user_id = u /\ r.file_unique_id = uid
    THEN "UNIQUE constraint failed"
    ELSE IF \A s \in stk : s.file_unique_id /= uid
         THEN "FOREIGN KEY constraint failed"
         ELSE "ok"

insert_favorite(fav, u, uid, g) == fav \cup {FavoriteRow(u, uid, g)}

\* DELETE FROM favorite WHERE user_id=? AND file_unique_id=? AND group_no=?
delete_favoirte(fav, u, uid, g) == fav \ {FavoriteRow(u, uid, g)}

count_favorite_sticker(fav, u, g) ==
    Cardinality({r \in fav : r.user_id = u /\ r.group_no = g})

search_favorite_group_no(fav, u, uid) ==
    (CHOOSE r \in fav : r.user_id = u /\ r.file_unique_id = uid).group_no

\* authorize(): the users of TABLE user
authorize(u) == u \in Users

(***************************************************************************)
(* Controls pending in a chat: whether a "Finish" and a "Cancel" button    *)
(* are there to press, and the users whose "Which favorite:" keyboard is.  *)
(* A press deletes the message of the control; of several controls of one  *)
(* kind the model keeps one, the others are never pressed.                 *)
(***************************************************************************)
NoButtons == [finish |-> FALSE, cancel |-> FALSE, group |-> {}]

(***************************************************************************)
(* Time.  The clock counts ticks of half a day; it reads one of Instants.  *)
(***************************************************************************)
TicksPerDay == 2
\* timedelta(days=90)
WindowDays == 90
Instants == {0, 1, 20, 22, 181}
\* usage events the log holds at most
MaxChosen == 2

\* Python round(n / d) for n >= 0, d > 0: to the nearest, a half to the even
PyRound(n, d) ==
    LET q == n \div d
        r == n % d
    IN  IF 2 * r < d THEN q
        ELSE IF 2 * r > d THEN q + 1
        ELSE IF q % 2 = 0 THEN q ELSE q + 1

\* calculate_score(age) = 1 / (age + 2) ** 1.8, in units of 1e-8, for the
\* ages 0..90 an event inside the window has
ScoreTable ==
    << 28717458, 13841454, 8246924, 5518918, 3974914, 3011781, 2368307, 1915858,
       1584893, 1335036, 1141494, 988329, 864907, 763898, 680117, 609806,
       550185, 499164, 455141, 416874, 383388, 353907, 327808, 304584,
       283823, 265182, 248379, 233175, 219372, 206799, 195312, 184788,
       175120, 166217, 157999, 150396, 143347, 136799, 130704, 125022,
       119715, 114751, 110099, 105734, 101633, 97774, 94138, 90708,
       87468, 84406, 81506, 78759, 76153, 73679, 71328, 69091,
       66962, 64933, 62998, 61151, 59387, 57701, 56088, 54545,
       53066, 51649, 50290, 48985, 47733, 46530, 45373, 44260,
       43189, 42158, 41165, 40208, 39285, 38394, 37535, 36705,
       35903, 35128, 34379, 33654, 32953, 32274, 31617, 30981,
       30364, 29766, 29186 >>

calculate_score(age) == ScoreTable[age + 1]

(***************************************************************************)
(* The trending job: its statements on its own connection.                 *)
(***************************************************************************)
ChosenRow(uid, u, t) == [file_unique_id |-> uid, user_id |-> u, chosen_time |-> t]
TrendingRow(uid, u, sc) == [file_unique_id |-> uid, user_id |-> u, score |-> sc]

\* as search_chosen_recent, without the condition on chosen_time
search_chosen_recent_AllTime(log, u, oldest_time) ==
    SelectSeq(log, LAMBDA r : r.user_id = u)

\* SELECT * FROM chosen WHERE user_id=? AND chosen_time>=? ORDER BY chosen_time
search_chosen_recent(log, u, oldest_time) ==
    SelectSeq(log, LAMBDA r : r.user_id = u /\ r.chosen_time >= oldest_time)

\* score_dict after the loop over recorder: the keys in the order they were
\* first stored, and the score accumulated for a key
RECURSIVE DictKeys(_)
DictKeys(recorder) ==
    IF recorder = <<>> THEN <<>>
    ELSE LET front == DictKeys(SubSeq(recorder, 1, Len(recorder) - 1))
             k == recorder[Len(recorder)].file_unique_id
         IN  IF \E i \in 1..Len(front) : front[i] = k THEN front ELSE Append(front, k)

RECURSIVE Accumulate(_, _, _)
Accumulate(recorder, k, run_now) ==
    IF recorder = <<>> THEN 0
    ELSE LET r == recorder[Len(recorder)]
             day_age == PyRound(run_now - r.chosen_time, TicksPerDay)
         IN  Accumulate(SubSeq(recorder, 1, Len(recorder) - 1), k, run_now)
             + (IF r.file_unique_id = k THEN calculate_score(day_age) ELSE 0)

\* as SortedIndex, with sorted(..., reverse=True)
SortedIndex_Reversed(keys, score, p) ==
    Cardinality({q \in 1..Len(keys) :
        \/ score[keys[q]] > score[keys[p]]
        \/ score[keys[q]] = score[keys[p]] /\ q < p})

\* enumerate(sorted(score_dict, key=score_dict.get)): the index of the key at
\* position p of the dict; sorted() is stable
SortedIndex(keys, score, p) ==
    Cardinality({q \in 1..Len(keys) :
        \/ score[keys[q]] < score[keys[p]]
        \/ score[keys[q]] = score[keys[p]] /\ q < p})

\* the rows one pass of the loop over the users inserts into trending_tmp
UserRows(log, u, run_now) ==
    LET oldest_time == run_now - WindowDays * TicksPerDay
        recorder == search_chosen_recent(log, u, oldest_time)
        keys == DictKeys(recorder)
        score == [k \in {keys[i] : i \in 1..Len(keys)} |-> Accumulate(recorder, k, run_now)]
    IN  {TrendingRow(keys[p], u, SortedIndex(keys, score, p)) : p \in 1..Len(keys)}

\* pc: the statement the job is at; now, users: its locals; txn, view: whether
\* its connection has a transaction open, and the tables as that sees them.
\* History of the latest run: before, seen: the committed tables and the length
\* of the usage log when it began; last, at: how it ended, and where it raised
NoJob == [pc |-> "idle", now |-> 0, users |-> {}, txn |-> FALSE, view |-> EmptyDict,
          before |-> EmptyDict, seen |-> 0, last |-> "none", at |-> "none"]

\* the tables as the connection of the job sees them
JobTables == IF job.txn THEN job.view ELSE tables

\* (variant: the job gives the event loop away between any two statements)
Awaiting_Always == TRUE

\* the event loop is free for a handler: the job is not running, or awaits
\* one of its two notifications
Awaiting == job.pc \in {"idle", "notified", "done"}

Drop(tbls, name) == [t \in DOMAIN tbls \ {name} |-> tbls[t]]

Said(c, t) == [chat |-> c, text |-> t]
Raised(c, e) == [chat |-> c, error |-> e]

Init ==
    /\ sticker = {}
    /\ favorite = {}
    /\ committed = [sticker |-> {}, favorite |-> {}]
    /\ chat_data = [c \in Chats |-> EmptyDict]
    /\ buttons = [c \in Chats |-> NoButtons]
    /\ wf_user = [c \in Chats |-> 0]
    /\ reply = Said("g", "start")
    /\ user_data = [u \in Users |-> EmptyDict]
    /\ chosen = <<>>
    /\ now = 0
    /\ tables = [trending |-> {}]
    /\ job = NoJob
    /\ waiting = NoJob

(***************************************************************************)
(* /favorite add, /favorite delete                                         *)
(***************************************************************************)
favorite_command(c, u, arg) ==
    /\ Awaiting
    /\ authorize(u)
    /\ chat_data' = [chat_data EXCEPT ![c] =
            Put(@, "status", IF arg = "add" THEN "Add favorite" ELSE "Delete favorite")]
    /\ buttons' = [buttons EXCEPT ![c].group = @ \cup {u}]
    /\ reply' = Said(c, "Which favorite:")
    /\ UNCHANGED <<sticker, favorite, committed, wf_user,
                 user_data, chosen, now, tables, job, waiting>>

\* /bulk
bulk_command(c, u) ==
    /\ Awaiting
    /\ authorize(u)
    /\ chat_data' = [chat_data EXCEPT ![c] = Put(@, "status", "Bulk update alias")]
    /\ reply' = Said(c, "Send a sticker to me.")
    /\ UNCHANGED <<sticker, favorite, committed, buttons, wf_user,
                 user_data, chosen, now, tables, job, waiting>>

\* a press on a number of the "Which favorite:" keyboard of user uid
favorite_callback(c, n, uid) ==
    /\ Awaiting
    /\ uid \in buttons[c].group
    /\ LET cnt == count_favorite_sticker(favorite, uid, n)
           d1 == Put(Put(chat_data[c], "group_no", n), "number_of_stickers", cnt)
       IN  IF Has(chat_data[c], "status")
           THEN /\ chat_data' = [chat_data EXCEPT ![c] = Put(d1, "finish_message", "msg")]
                /\ buttons' = [buttons EXCEPT ![c].group = @ \ {uid},
                                              ![c].finish = TRUE]
                /\ reply' = Said(c, "Favorite n: count")
           ELSE \* chat_data["status"] raises after the two keys are stored
                /\ chat_data' = [chat_data EXCEPT ![c] = d1]
                /\ buttons' = [buttons EXCEPT ![c].group = @ \ {uid}]
                /\ reply' = Raised(c, "KeyError")
    /\ wf_user' = [wf_user EXCEPT ![c] = uid]
    /\ UNCHANGED <<sticker, favorite, committed,
                 user_data, chosen, now, tables, job, waiting>>

(***************************************************************************)
(* A sticker message: sticker_decision sends it to update_favorite while   *)
(* the status is a favorite one, and to update_alias_1 otherwise.          *)
(***************************************************************************)
Sticker(uid, fid) == [file_unique_id |-> uid, file_id |-> fid]

\* (variant: the UNIQUE branch counts the sticker as inserted)
AddRowcount_Repeat(err) ==
    IF err \in {"ok", "FOREIGN KEY constraint failed", "UNIQUE constraint failed"} THEN 1
    ELSE 0

\* rowcount of the add: 1 inserted, -1 the UNIQUE branch (0 is what the code
\* expects of a repeated add; INSERT never returns it)
AddRowcount(err) ==
    IF err = "ok" \/ err = "FOREIGN KEY constraint failed" THEN 1
    ELSE IF err = "UNIQUE constraint failed" THEN 0 - 1
    ELSE 0

update_favorite(c, u, s) ==
    LET d == chat_data[c]
        uid == s.file_unique_id
    IN
    /\ Awaiting
    /\ authorize(u)
    /\ Get(d, "status") \in {"Add favorite", "Delete favorite"}
    /\ IF ~Has(d, "group_no")
       THEN \* chat_data["group_no"] raises before any statement runs
            /\ reply' = Raised(c, "KeyError")
            /\ UNCHANGED <<sticker, favorite, chat_data>>
       ELSE
       LET g == d["group_no"]
           adding == d["status"] = "Add favorite"
           err == InsertFavoriteError(sticker, favorite, u, uid, g)
           rowcount == IF adding THEN AddRowcount(err)
                       ELSE IF FavoriteRow(u, uid, g) \in favorite THEN 1 ELSE 0
           stk1 == IF adding /\ err = "FOREIGN KEY constraint failed"
                   THEN insert_or_update_sticker(sticker, uid, s.file_id, u, NULL, NULL)
                   ELSE sticker
           fav1 == IF adding
                   THEN IF rowcount = 1 THEN insert_favorite(favorite, u, uid, g)
                        ELSE favorite
                   ELSE delete_favoirte(favorite, u, uid, g)
           n1 == IF rowcount = 1
                 THEN IF adding THEN d["number_of_stickers"] + 1
                      ELSE d["number_of_stickers"] - 1
                 ELSE d["number_of_stickers"]
       IN  /\ n1 \in (0 - MaxTally)..MaxTally
           /\ sticker' = stk1
           /\ favorite' = fav1
           /\ chat_data' = [chat_data EXCEPT ![c] = Put(d, "number_of_stickers", n1)]
           /\ reply' =
                IF rowcount = 1
                THEN IF Has(d, "finish_message")
                     THEN Said(c, "edited: Favorite n: count")
                     ELSE Raised(c, "KeyError")
                ELSE IF adding
                     THEN IF rowcount = 0
                          THEN Said(c, "The sticker has already in this favorite.")
                          ELSE [chat |-> c, text |-> "The sticker has already in favorite",
                                group |-> search_favorite_group_no(favorite, u, uid)]
                     ELSE Said(c, "The sticker is not in this favorite.")
    /\ UNCHANGED <<committed, buttons, wf_user,
                 user_data, chosen, now, tables, job, waiting>>

\* (variant: the commit makes the rows of TABLE favorite durable and not
\* those of TABLE sticker)
finish_callback_FavoriteOnly(c) ==
    /\ Awaiting
    /\ buttons[c].finish
    /\ buttons' = [buttons EXCEPT ![c].finish = FALSE]
    /\ committed' = [sticker |-> committed.sticker, favorite |-> favorite]
    /\ IF Has(chat_data[c], "group_no")
       THEN /\ reply' = Said(c, "Succeeded. Now Favorite n has count stickers.")
            /\ chat_data' = [chat_data EXCEPT ![c] = EmptyDict]
       ELSE /\ reply' = Raised(c, "KeyError")
            /\ UNCHANGED chat_data
    /\ UNCHANGED <<sticker, favorite, wf_user,
                 user_data, chosen, now, tables, job, waiting>>

\* a press on "Finish"
finish_callback(c) ==
    /\ Awaiting
    /\ buttons[c].finish
    /\ buttons' = [buttons EXCEPT ![c].finish = FALSE]
    /\ committed' = [sticker |-> sticker, favorite |-> favorite]
    /\ IF Has(chat_data[c], "group_no")
       THEN /\ reply' = Said(c, "Succeeded. Now Favorite n has count stickers.")
            /\ chat_data' = [chat_data EXCEPT ![c] = EmptyDict]
       ELSE \* data['group_no'] raises after the commit, before data.clear()
            /\ reply' = Raised(c, "KeyError")
            /\ UNCHANGED chat_data
    /\ UNCHANGED <<sticker, favorite, wf_user,
                 user_data, chosen, now, tables, job, waiting>>

(***************************************************************************)
(* The alias workflows.                                                    *)
(***************************************************************************)
\* get_sticker_set: the stickers of the set a sticker belongs to (both items
\* of the model are of one set), with the file ids the transport reports now
StickerSet(s) == {Sticker(i, s.file_id) : i \in Items}

update_alias_1(c, u, s) ==
    LET d == chat_data[c]
        bulk == Get(d, "status") = "Bulk update alias"
        d1 == IF bulk THEN Put(d, "stickers", StickerSet(s)) ELSE Put(d, "sticker", s)
    IN
    /\ Awaiting
    /\ authorize(u)
    /\ Get(d, "status") \notin {"Add favorite", "Delete favorite"}
    /\ chat_data' = [chat_data EXCEPT ![c] =
            Put(Put(d1, "update_alias_placeholder", "msg"), "cancel_message", "msg")]
    /\ buttons' = [buttons EXCEPT ![c].cancel = TRUE]
    /\ reply' = Said(c, IF bulk THEN "New set alias is?" ELSE "New alias is?")
    /\ UNCHANGED <<sticker, favorite, committed, wf_user,
                 user_data, chosen, now, tables, job, waiting>>

RECURSIVE BulkUpdate(_, _, _, _)
\* (variant: the loop ends after the first of the captured stickers)
BulkUpdate_First(tbl, stickers, u, set_alias) ==
    IF stickers = {} THEN tbl
    ELSE LET s == CHOOSE x \in stickers : TRUE
         IN  insert_or_update_sticker(tbl, s.file_unique_id, s.file_id, u, NULL, set_alias)

\* the loop of update_alias_2 over the captured stickers
BulkUpdate(tbl, stickers, u, set_alias) ==
    IF stickers = {} THEN tbl
    ELSE LET s == CHOOSE x \in stickers : TRUE
         IN  BulkUpdate(
                insert_or_update_sticker(tbl, s.file_unique_id, s.file_id, u, NULL, set_alias),
                stickers \ {s}, u, set_alias)

\* a text message while "sticker" or "stickers" is in chat_data
update_alias_2(c, u, text) ==
    LET d == chat_data[c]
        bulk == Get(d, "status") = "Bulk update alias"
        key == IF bulk THEN "stickers" ELSE "sticker"
    IN
    /\ Awaiting
    /\ authorize(u)
    /\ Has(d, "sticker") \/ Has(d, "stickers")
    /\ IF ~Has(d, key)
       THEN \* chat_data[key] raises before any statement runs
            /\ reply' = Raised(c, "KeyError")
            /\ UNCHANGED <<sticker, committed, chat_data, buttons>>
       ELSE LET stk1 == IF bulk
                        THEN BulkUpdate(sticker, d["stickers"], u, text)
                        ELSE insert_or_update_sticker(sticker, d["sticker"].file_unique_id,
                                                      d["sticker"].file_id, u, text, NULL)
            IN  /\ sticker' = stk1
                /\ committed' = [sticker |-> stk1, favorite |-> favorite]
                /\ chat_data' = [chat_data EXCEPT ![c] = EmptyDict]
                /\ buttons' = [buttons EXCEPT ![c].cancel = FALSE]
                /\ reply' = Said(c, "Succeeded.")
    /\ UNCHANGED <<favorite, wf_user,
                 user_data, chosen, now, tables, job, waiting>>

\* a text message otherwise: text_decision answers with the help text
help_command(c, u) ==
    /\ Awaiting
    /\ authorize(u)
    /\ ~(Has(chat_data[c], "sticker") \/ Has(chat_data[c], "stickers"))
    /\ reply' = Said(c, "help")
    /\ UNCHANGED <<sticker, favorite, committed, chat_data, buttons, wf_user,
                 user_data, chosen, now, tables, job, waiting>>

\* (variant: the press deletes the messages and leaves chat_data as it is)
cancel_callback_NoClear(c) ==
    /\ Awaiting
    /\ buttons[c].cancel
    /\ buttons' = [buttons EXCEPT ![c].cancel = FALSE]
    /\ reply' = IF Has(chat_data[c], "update_alias_placeholder")
                THEN Said(c, "cancelled") ELSE Raised(c, "KeyError")
    /\ UNCHANGED <<sticker, favorite, committed, chat_data, wf_user,
                 user_data, chosen, now, tables, job, waiting>>

\* a press on "Cancel"
cancel_callback(c) ==
    /\ Awaiting
    /\ buttons[c].cancel
    /\ buttons' = [buttons EXCEPT ![c].cancel = FALSE]
    /\ IF Has(chat_data[c], "update_alias_placeholder")
       THEN /\ chat_data' = [chat_data EXCEPT ![c] = EmptyDict]
            /\ reply' = Said(c, "cancelled")
       ELSE /\ reply' = Raised(c, "KeyError")
            /\ UNCHANGED chat_data
    /\ UNCHANGED <<sticker, favorite, committed, wf_user,
                 user_data, chosen, now, tables, job, waiting>>

(***************************************************************************)
(* Inline queries.                                                         *)
(***************************************************************************)
\* the order in which a statement without ORDER BY, or with equal sort keys,
\* returns the stickers: SQL leaves it open, the model fixes one
ItemOrder == <<"Y", "Z">>
Position(uid) == CHOOSE i \in 1..Len(ItemOrder) : ItemOrder[i] = uid

FileIdOf(stk, uid) == (CHOOSE s \in stk : s.file_unique_id = uid).file_id

\* (variant: ORDER BY score, ascending)
search_trending_sticker_Ascending(stk, trending, u) ==
    LET hit == {r \in trending : /\ r.user_id = u
                                 /\ \E s \in stk : s.file_unique_id = r.file_unique_id}
        Before(a, b) == \/ a.score < b.score
                        \/ a.score = b.score
                           /\ Position(a.file_unique_id) < Position(b.file_unique_id)
        rows == [k \in 1..Cardinality(hit) |->
                    CHOOSE x \in hit : Cardinality({y \in hit : Before(y, x)}) = k - 1]
    IN  [k \in 1..Len(rows) |->
            <<rows[k].file_unique_id, FileIdOf(stk, rows[k].file_unique_id)>>]

\* SELECT ... FROM sticker LEFT OUTER JOIN trending ON trending.user_id=? AND ...
\* WHERE score IS NOT NULL ORDER BY score DESC, given the rows of trending
search_trending_sticker(stk, trending, u) ==
    LET hit == {r \in trending : /\ r.user_id = u
                                 /\ \E s \in stk : s.file_unique_id = r.file_unique_id}
        Before(a, b) == \/ a.score > b.score
                        \/ a.score = b.score
                           /\ Position(a.file_unique_id) < Position(b.file_unique_id)
        rows == [k \in 1..Cardinality(hit) |->
                    CHOOSE x \in hit : Cardinality({y \in hit : Before(y, x)}) = k - 1]
    IN  [k \in 1..Len(rows) |->
            <<rows[k].file_unique_id, FileIdOf(stk, rows[k].file_unique_id)>>]

\* flag_parser(query) on a query as the sequence of its characters: a leading
\* "," takes one character off and asks for the set aliases, a trailing " i"
\* takes two off and asks for a fresh answer.  (The queries of the model do
\* not start with the mis-decoded wide comma, the other prefix of the code.)
flag_parser(query) ==
    LET set_alias == Len(query) >= 1 /\ query[1] = ","
        fresh == Len(query) >= 2 /\ query[Len(query) - 1] = " " /\ query[Len(query)] = "i"
        alias1 == IF set_alias THEN Tail(query) ELSE query
        alias2 == IF fresh THEN SubSeq(alias1, 1, Len(alias1) - 2) ELSE alias1
    IN  [set_alias |-> set_alias, fresh |-> fresh, alias |-> alias2]

\* text LIKE pattern of SQLite on lower-case text: % is any run of characters,
\* _ is any one character
RECURSIVE Like(_, _)
Like(text, pattern) ==
    IF pattern = <<>> THEN text = <<>>
    ELSE IF Head(pattern) = "%"
         THEN Like(text, Tail(pattern)) \/ (text /= <<>> /\ Like(Tail(text), pattern))
         ELSE /\ text /= <<>>
              /\ Head(pattern) = "_" \/ Head(pattern) = Head(text)
              /\ Like(Tail(text), Tail(pattern))

\* column LIKE '%alias%'; NULL is like nothing
LikeAlias(column, alias) == column /= NULL /\ Like(column, <<"%">> \o alias \o <<"%">>)

\* re.match(r"^(\d)$", alias) and int(alias)
Digits == <<"0", "1", "2", "3", "4", "5", "6", "7", "8", "9">>
IsDigit(alias) == Len(alias) = 1 /\ \E k \in 1..Len(Digits) : Digits[k] = alias[1]
IntOf(alias) == (CHOOSE k \in 1..Len(Digits) : Digits[k] = alias[1]) - 1

\* the (file_unique_id, file_id) of the stickers of a set of rows of TABLE
\* sticker, by key descending and then in the order of the table
FetchAll(stk, hit, key) ==
    LET Before(a, b) == \/ key[a.file_unique_id] > key[b.file_unique_id]
                        \/ /\ key[a.file_unique_id] = key[b.file_unique_id]
                           /\ Position(a.file_unique_id) < Position(b.file_unique_id)
        rows == [k \in 1..Cardinality(hit) |->
                    CHOOSE x \in hit : Cardinality({y \in hit : Before(y, x)}) = k - 1]
    IN  [k \in 1..Len(rows) |-> <<rows[k].file_unique_id, rows[k].file_id>>]

\* the score the LEFT OUTER JOIN gives a sticker for user u: NULL, below every
\* score, when trending has no row
JoinedScore(trending, u) ==
    [uid \in Items |->
        IF \E r \in trending : r.user_id = u /\ r.file_unique_id = uid
        THEN (CHOOSE r \in trending : r.user_id = u /\ r.file_unique_id = uid).score
        ELSE 0 - 1]

\* (variant: WHERE set_alias like ?)
search_sticker_by_alias_SetAlias(stk, trending, u, alias) ==
    FetchAll(stk, {r \in stk : LikeAlias(r.set_alias, alias)}, JoinedScore(trending, u))

\* SELECT ... FROM sticker LEFT OUTER JOIN trending ... WHERE alias like ?
\* ORDER BY score DESC
search_sticker_by_alias(stk, trending, u, alias) ==
    FetchAll(stk, {r \in stk : LikeAlias(r.alias, alias)}, JoinedScore(trending, u))

\* SELECT ... FROM sticker WHERE set_alias like ?
search_sticker_by_set_alias(stk, set_alias) ==
    FetchAll(stk, {r \in stk : LikeAlias(r.set_alias, set_alias)}, [uid \in Items |-> 0])

\* SELECT ... FROM sticker INNER JOIN favorite ... WHERE favorite.user_id=? and
\* favorite.group_no=?
search_sticker_by_favortie(stk, fav, u, g) ==
    FetchAll(stk, {r \in stk : FavoriteRow(u, r.file_unique_id, g) \in fav},
             [uid \in Items |-> 0])

\* update.inline_query.answer(results[, cache_time=0]) to the query of user u,
\* and a query left without an answer
Answer(u, query, results, cache_time) ==
    [user |-> u, query |-> query, results |-> results, cache_time |-> cache_time]
NoAnswer(u, query) == [user |-> u, query |-> query, text |-> "no answer"]

\* (variant: the empty query answers with all the trending stickers)
EmptyQueryResults_AllTrending(last_sticker, stickers) ==
    IF last_sticker /= <<>> THEN last_sticker ELSE stickers

\* what the empty query answers with: the last results when there are any,
\* else the first of the trending stickers
EmptyQueryResults(last_sticker, stickers) ==
    IF last_sticker /= <<>> THEN last_sticker
    ELSE IF stickers = <<>> THEN <<>> ELSE <<stickers[1]>>

\* what inlinequery answers user u for a query: an answer with its results, no
\* answer, or the exception of a lookup
InlineReply(u, query) ==
    LET flags == flag_parser(query)
        alias == flags.alias
        last_sticker == IF Has(user_data[u], "last_results")
                        THEN user_data[u]["last_results"] ELSE <<>>
        joins == IF alias = <<>> THEN last_sticker = <<>>
                 ELSE ~IsDigit(alias) /\ (alias = <<"%">> \/ ~flags.set_alias)
    IN  IF joins /\ ~Has(tables, "trending")
        THEN \* sqlite3.OperationalError: no such table: trending
             [user |-> u, query |-> query, error |-> "OperationalError"]
        ELSE IF alias = <<>>
        THEN LET stickers == IF last_sticker /= <<>> THEN <<>>
                             ELSE search_trending_sticker(sticker, tables["trending"], u)
                 results == EmptyQueryResults(last_sticker, stickers)
             IN  IF results = <<>> THEN NoAnswer(u, query)
                 ELSE Answer(u, query, results, "default")
        ELSE LET stickers ==
                     IF IsDigit(alias)
                     THEN search_sticker_by_favortie(sticker, favorite, u, IntOf(alias))
                     ELSE IF alias = <<"%">>
                     THEN search_trending_sticker(sticker, tables["trending"], u)
                     ELSE IF flags.set_alias
                     THEN search_sticker_by_set_alias(sticker, alias)
                     ELSE search_sticker_by_alias(sticker, tables["trending"], u, alias)
             IN  IF stickers = <<>> THEN NoAnswer(u, query)
                 ELSE Answer(u, query, stickers, IF flags.fresh THEN "0" ELSE "default")

\* an inline query of user u; the results of a query with text are kept as
\* user_data["last_results"]
inlinequery(u, query) ==
    /\ Awaiting
    /\ authorize(u)
    /\ reply' = InlineReply(u, query)
    /\ user_data' = IF flag_parser(query).alias /= <<>> /\ Has(InlineReply(u, query), "results")
                    THEN [user_data EXCEPT ![u] =
                            Put(@, "last_results", InlineReply(u, query).results)]
                    ELSE user_data
    /\ UNCHANGED <<sticker, favorite, committed, chat_data, buttons, wf_user,
                   chosen, now, tables, job, waiting>>

\* the query "%" and the empty query of user u
inlinequery_trending(u, query) ==
    /\ query \in {<<>>, <<"%">>}
    /\ inlinequery(u, query)

\* the user picked a sticker of an inline answer
chosen_inline_result(u, uid) ==
    /\ Awaiting
    /\ Len(chosen) < MaxChosen
    \* FOREIGN KEY (file_unique_id) REFERENCES sticker
    /\ \E s \in sticker : s.file_unique_id = uid
    /\ chosen' = Append(chosen, ChosenRow(uid, u, now))
    /\ committed' = [sticker |-> sticker, favorite |-> favorite]
    /\ UNCHANGED <<sticker, favorite, chat_data, buttons, wf_user, reply,
                   user_data, now, tables, job, waiting>>

\* time passes: the clock reads the next instant
Tick(t) ==
    /\ Awaiting
    /\ t \in Instants
    /\ t > now
    /\ \A i \in Instants : i > now => t <= i
    /\ now' = t
    /\ UNCHANGED <<sticker, favorite, committed, chat_data, buttons, wf_user, reply,
                   user_data, chosen, tables, job, waiting>>

(***************************************************************************)
(* callback_update_trending, statement by statement.                       *)
(***************************************************************************)
JobFrame == <<sticker, favorite, committed, chat_data, buttons, wf_user, reply,
              user_data, chosen, now, waiting>>

Failed(at) == [NoJob EXCEPT !.last = "failed", !.at = at, !.before = job.before,
                            !.seen = job.seen, !.now = job.now]

\* the scheduler runs the job: connect, "System: Update trending..."
job_start ==
    /\ job.pc = "idle"
    /\ job' = [NoJob EXCEPT !.pc = "notified"]
    /\ UNCHANGED <<tables, JobFrame>>

\* create_trending(cursor, True); now = datetime.now(); select_all_user_id
create_trending ==
    /\ job.pc = "notified"
    /\ IF Has(tables, "trending_tmp")
       THEN \* sqlite3.OperationalError: table trending_tmp already exists
            /\ job' = [Failed("create") EXCEPT !.before = tables, !.seen = Len(chosen),
                                                !.now = now]
            /\ UNCHANGED tables
       ELSE \* no transaction is open: the statement is committed at once
            /\ tables' = Put(tables, "trending_tmp", {})
            /\ job' = [job EXCEPT !.pc = "loop", !.now = now, !.users = Users,
                                  !.before = tables, !.seen = Len(chosen)]
    /\ UNCHANGED JobFrame

\* one pass of the loop over the users
score_user ==
    /\ job.pc = "loop"
    /\ job.users /= {}
    /\ LET user_id == CHOOSE u \in job.users : \A v \in job.users : u <= v
           rows == UserRows(chosen, user_id, job.now)
           seen == JobTables
       IN  job' = [job EXCEPT
                !.users = @ \ {user_id},
                \* the first INSERT opens the transaction
                !.txn = @ \/ rows /= {},
                !.view = IF rows = {} THEN @
                         ELSE Put(seen, "trending_tmp", seen["trending_tmp"] \cup rows)]
    /\ UNCHANGED <<tables, JobFrame>>

drop_trending ==
    /\ job.pc = "loop"
    /\ job.users = {}
    /\ IF job.txn
       THEN /\ job' = [job EXCEPT !.pc = "dropped", !.view = Drop(@, "trending")]
            /\ UNCHANGED tables
       ELSE /\ job' = [job EXCEPT !.pc = "dropped"]
            /\ tables' = Drop(tables, "trending")
    /\ UNCHANGED JobFrame

Rename(tbls) == Put(Drop(tbls, "trending_tmp"), "trending", tbls["trending_tmp"])

alter_tmp_to_trending ==
    /\ job.pc = "dropped"
    /\ IF job.txn
       THEN /\ job' = [job EXCEPT !.pc = "renamed", !.view = Rename(@)]
            /\ UNCHANGED tables
       ELSE /\ job' = [job EXCEPT !.pc = "renamed"]
            /\ tables' = Rename(tables)
    /\ UNCHANGED JobFrame

\* connection.commit(); connection.close()
commit_close ==
    /\ job.pc = "renamed"
    /\ tables' = JobTables
    /\ job' = [job EXCEPT !.pc = "done", !.txn = FALSE, !.view = EmptyDict]
    /\ UNCHANGED JobFrame

\* "System: Trending updated."
job_done ==
    /\ job.pc = "done"
    /\ job' = [job EXCEPT !.pc = "idle", !.last = "updated"]
    /\ UNCHANGED <<tables, JobFrame>>

\* the statement the job is at raises (the database is locked, an I/O error):
\* the job ends there, and what its connection has not committed is rolled
\* back when the connection is dropped
job_raises ==
    /\ job.pc \in {"loop", "dropped", "renamed"}
    /\ job' = Failed(IF job.pc = "loop" THEN IF job.users = {} THEN "drop" ELSE "loop"
                     ELSE IF job.pc = "dropped" THEN "alter" ELSE "commit")
    /\ UNCHANGED <<tables, JobFrame>>

(***************************************************************************)
(* Two invocations of the job.  job_queue.run_daily has the scheduler call *)
(* callback_update_trending once a day, and main() sets nothing that keeps *)
(* a call from beginning before the one before it is over.  An invocation  *)
(* is a coroutine of the one event loop: another coroutine runs only while *)
(* it awaits.  job is the invocation the event loop runs or ran last,      *)
(* waiting the other one, suspended where it awaits.                       *)
(***************************************************************************)
\* the scheduler calls the job again: the new invocation connects and awaits
\* its "System: Update trending..."
job_overlap ==
    /\ Awaiting
    /\ job.pc /= "idle"
    /\ waiting.pc = "idle"
    /\ waiting' = [NoJob EXCEPT !.pc = "notified"]
    /\ UNCHANGED <<sticker, favorite, committed, chat_data, buttons, wf_user, reply,
                   user_data, chosen, now, tables, job>>

\* the event loop goes on with the suspended invocation
job_switch ==
    /\ Awaiting
    /\ waiting.pc /= "idle"
    /\ job' = waiting
    /\ waiting' = IF job.pc = "idle" THEN NoJob ELSE job
    /\ UNCHANGED <<sticker, favorite, committed, chat_data, buttons, wf_user, reply,
                   user_data, chosen, now, tables>>

(***************************************************************************)
(* The updates the transport delivers, over the chats, users, items, file  *)
(* ids and texts of a scope: those of the favorite workflow, and those of  *)
(* the alias workflows.                                                    *)
(***************************************************************************)
FavoriteNext(chats, users, items, fileids) ==
    \/ \E c \in chats : \E u \in Members[c] \cap users, arg \in {"add", "delete"} :
            favorite_command(c, u, arg)
    \/ \E c \in chats, n \in Groups, uid \in users : favorite_callback(c, n, uid)
    \/ \E c \in chats : \E u \in Members[c] \cap users, i \in items, f \in fileids :
            update_favorite(c, u, Sticker(i, f))
    \/ \E c \in chats : finish_callback(c)

AliasNext(chats, users, items, fileids, texts) ==
    \/ \E c \in chats : \E u \in Members[c] \cap users : bulk_command(c, u)
    \/ \E c \in chats : \E u \in Members[c] \cap users, i \in items, f \in fileids :
            update_alias_1(c, u, Sticker(i, f))
    \/ \E c \in chats : \E u \in Members[c] \cap users, t \in texts : update_alias_2(c, u, t)
    \/ \E c \in chats : \E u \in Members[c] \cap users : help_command(c, u)
    \/ \E c \in chats : cancel_callback(c)

\* every handler, in the private chat of user 1
Next ==
    \/ FavoriteNext({"p"}, {1}, Items, {"f1"})
    \/ AliasNext({"p"}, {1}, Items, {"f1"}, {<<"c">>})

Spec == Init /\ [][Next]_vars

\* the favorite workflow of user 1 in two chats, on one item
NextFavorite == FavoriteNext(Chats, {1}, {"Y"}, {"f1"})

SpecFavorite == Init /\ [][NextFavorite]_vars

\* the alias workflows of the two users in the group chat
NextAlias == AliasNext({"g"}, Users, Items, FileIds, Texts)

SpecAlias == Init /\ [][NextAlias]_vars

(***************************************************************************)
(* The trending job with the usage log and the readers of the ranking, on  *)
(* a store that holds the two items.                                       *)
(***************************************************************************)
InitScoring ==
    /\ sticker = {StickerRow(i, "f1", 1, <<"c">>, NULL) : i \in Items}
    /\ favorite = {}
    /\ committed = [sticker |-> sticker, favorite |-> {}]
    /\ chat_data = [c \in Chats |-> EmptyDict]
    /\ buttons = [c \in Chats |-> NoButtons]
    /\ wf_user = [c \in Chats |-> 0]
    /\ reply = Said("g", "start")
    /\ user_data = [u \in Users |-> EmptyDict]
    /\ chosen = <<>>
    /\ now = 0
    /\ tables = [trending |-> {}]
    /\ job = NoJob
    /\ waiting = NoJob

\* user 1 uses both items and reads the ranking, user 2 uses Y
NextScoring ==
    \/ \E t \in Instants : Tick(t)
    \/ \E i \in Items : chosen_inline_result(1, i)
    \/ chosen_inline_result(2, "Y")
    \/ \E q \in {<<>>, <<"%">>} : inlinequery_trending(1, q)
    \/ job_start
    \/ create_trending
    \/ score_user
    \/ drop_trending
    \/ alter_tmp_to_trending
    \/ commit_close
    \/ job_done
    \/ job_raises

SpecScoring == InitScoring /\ [][NextScoring]_vars

\* the job called while an invocation of it is not over, with the usage log of
\* user 1; no statement raises for a reason outside the job
NextRuns ==
    \/ \E t \in Instants : Tick(t)
    \/ \E i \in Items : chosen_inline_result(1, i)
    \/ job_start
    \/ job_overlap
    \/ job_switch
    \/ create_trending
    \/ score_user
    \/ drop_trending
    \/ alter_tmp_to_trending
    \/ commit_close
    \/ job_done

SpecRuns == InitScoring /\ [][NextRuns]_vars

(***************************************************************************)
(* The favorite workflow of user 1 on Y in the group chat next to the      *)
(* alias workflows of user 1 on Z in the private chat and the stickers     *)
(* user 1 picks from inline answers: the handlers that commit, on the one  *)
(* connection of get_connection.                                           *)
(***************************************************************************)
NextCommit ==
    \/ FavoriteNext({"g"}, {1}, {"Y"}, {"f1"})
    \/ AliasNext({"p"}, {1}, {"Z"}, {"f1"}, {<<"c">>})
    \/ \E i \in Items : chosen_inline_result(1, i)

SpecCommit == Init /\ [][NextCommit]_vars

(***************************************************************************)
(* One run of the job, at the end of day 10, over a usage log of user 1    *)
(* that holds events of the first one and a half days, and the query "%"   *)
(* after it.  All the events of such a log have the same age in days.      *)
(***************************************************************************)
\* usage events the log of this scope holds at most
MaxLog == 4
TieInstants == {0, 1, 2}
TieNow == 10 * TicksPerDay + 1

\* the logs: events of user 1 in the order of their times
TieLogs ==
    LET picks == Items \X TieInstants
        seqs == UNION {[1..n -> picks] : n \in 0..MaxLog}
    IN  {[k \in DOMAIN f |-> ChosenRow(f[k][1], 1, f[k][2])] :
            f \in {g \in seqs : \A k \in DOMAIN g : k > 1 => g[k - 1][2] <= g[k][2]}}

InitTie ==
    /\ sticker = {StickerRow(i, "f1", 1, <<"c">>, NULL) : i \in Items}
    /\ favorite = {}
    /\ committed = [sticker |-> sticker, favorite |-> {}]
    /\ chat_data = [c \in Chats |-> EmptyDict]
    /\ buttons = [c \in Chats |-> NoButtons]
    /\ wf_user = [c \in Chats |-> 0]
    /\ reply = Said("g", "start")
    /\ user_data = [u \in Users |-> EmptyDict]
    /\ chosen \in TieLogs
    /\ now = TieNow
    /\ tables = [trending |-> {}]
    /\ job = NoJob
    /\ waiting = NoJob

NextTie ==
    \/ job_start
    \/ create_trending
    \/ score_user
    \/ drop_trending
    \/ alter_tmp_to_trending
    \/ commit_close
    \/ job_done
    \/ inlinequery_trending(1, <<"%">>)

SpecTie == InitTie /\ [][NextTie]_vars

(***************************************************************************)
(* Inline queries next to the alias workflows of user 1 in the private     *)
(* chat, on a store that holds some of the items, unnamed, with Y among    *)
(* the favorites 1 of user 1 and a ranking of user 1 over them.            *)
(***************************************************************************)
\* the marker of a fresh answer at the end of a query
Fresh(q) == q \o <<" ", "i">>

BaseQueries == {<<>>, <<"c">>, <<"d">>, <<",", "d">>, <<"%">>, <<"1">>}
Queries == BaseQueries \cup {Fresh(q) : q \in BaseQueries}

\* the set-alias marker before a text, before a digit and before "%"
MarkedQueries == {<<",", "d">>, <<",", "1">>, <<",", "%">>}

InitQuery ==
    \E stored \in SUBSET Items :
        /\ sticker = {StickerRow(i, "f1", 1, NULL, NULL) : i \in stored}
        /\ favorite = {FavoriteRow(1, i, 1) : i \in stored \cap {"Y"}}
        /\ committed = [sticker |-> sticker, favorite |-> favorite]
        /\ chat_data = [c \in Chats |-> EmptyDict]
        /\ buttons = [c \in Chats |-> NoButtons]
        /\ wf_user = [c \in Chats |-> 0]
        /\ reply = Said("g", "start")
        /\ user_data = [u \in Users |-> EmptyDict]
        /\ chosen = <<>>
        /\ now = 0
        /\ tables = [trending |-> {TrendingRow(i, 1, Position(i) - 1) : i \in stored}]
        /\ job = NoJob
        /\ waiting = NoJob

NextQuery ==
    \/ AliasNext({"p"}, {1}, Items, {"f1"}, Texts)
    \/ \E q \in Queries \cup MarkedQueries : inlinequery(1, q)

SpecQuery == InitQuery /\ [][NextQuery]_vars

(***************************************************************************)
(* The favorite workflow: properties.                                      *)
(***************************************************************************)
FavoriteStatus == {"Add favorite", "Delete favorite"}
GroupsOf(u, uid) == {r.group_no : r \in {x \in favorite : x.user_id = u /\ x.file_unique_id = uid}}
IsReply(c, texts) ==
    /\ Has(reply, "chat") /\ reply.chat = c
    /\ Has(reply, "text") /\ reply.text \in texts

C1_AtMostOneGroup ==
    \A u \in Users, i \in Items :
        Cardinality({r \in favorite : r.user_id = u /\ r.file_unique_id = i}) <= 1

C1_AddElsewhere(c, u, i, f) ==
    /\ Get(chat_data[c], "status") = "Add favorite"
    /\ Has(chat_data[c], "group_no")
    /\ GroupsOf(u, i) \ {chat_data[c]["group_no"]} /= {}
    /\ update_favorite(c, u, Sticker(i, f))

\* C1: a user's item is in at most one favorite group in every reachable
\* state, and an add of an item that the user has in another group leaves
\* TABLE favorite as it was.
C1_FavoriteExclusivity ==
    /\ []C1_AtMostOneGroup
    /\ [][\A c \in Chats, u \in Users, i \in Items, f \in FileIds :
            C1_AddElsewhere(c, u, i, f) => favorite' = favorite]_vars

\* an add was refused because the item is in another group than the chat's
C1_Witness ==
    /\ Has(reply, "group")
    /\ reply.text = "The sticker has already in favorite"
    /\ reply.group /= chat_data[reply.chat]["group_no"]
    /\ chat_data[reply.chat]["status"] = "Add favorite"

UpdateFavoriteTexts ==
    {"edited: Favorite n: count", "The sticker has already in this favorite.",
     "The sticker has already in favorite", "The sticker is not in this favorite."}

\* C2: after every sticker a favorite workflow handled, the tally of the
\* chat is the number of rows of the workflow's user in the chosen group.
C2_CounterConsistency ==
    \A c \in Chats :
        IsReply(c, UpdateFavoriteTexts) /\ Has(chat_data[c], "number_of_stickers") =>
            chat_data[c]["number_of_stickers"] =
                count_favorite_sticker(favorite, wf_user[c], chat_data[c]["group_no"])

\* C8: an add of an item the user already has in a group changes nothing and
\* answers "already in this favorite" when that group is the chat's own, and
\* names the other group when it is not.
C8_DistinguishableDuplicates ==
    [][\A c \in Chats, u \in Users, i \in Items, f \in FileIds :
        (/\ Get(chat_data[c], "status") = "Add favorite"
         /\ Has(chat_data[c], "group_no")
         /\ GroupsOf(u, i) /= {}
         /\ update_favorite(c, u, Sticker(i, f)))
        => /\ favorite' = favorite
           /\ reply' = IF chat_data[c]["group_no"] \in GroupsOf(u, i)
                       THEN Said(c, "The sticker has already in this favorite.")
                       ELSE [chat |-> c, text |-> "The sticker has already in favorite",
                             group |-> search_favorite_group_no(favorite, u, i)]]_vars

\* C5: once a favorite workflow was asked for in a chat, a text message does
\* not write the alias of the sticker an earlier alias prompt captured.
C5_AbandonedAliasNotWritten ==
    [][\A c \in Chats, u \in Users, t \in Texts :
        Get(chat_data[c], "status") \in FavoriteStatus /\ update_alias_2(c, u, t)
            => sticker' = sticker]_vars

(***************************************************************************)
(* The alias workflows: properties.                                        *)
(***************************************************************************)
RowOf(tbl, uid) == CHOOSE r \in tbl : r.file_unique_id = uid
Stored(tbl, uid) == \E r \in tbl : r.file_unique_id = uid

\* the rule on the row r of a table, for every owner, file id and text
C6_Rule(tbl, r, u, f, t) ==
    LET uid == r.file_unique_id
        byAlias == insert_or_update_sticker(tbl, uid, f, u, t, NULL)
        bySet == insert_or_update_sticker(tbl, uid, f, u, NULL, t)
        a == RowOf(byAlias, uid)
        b == RowOf(bySet, uid)
    IN  /\ Cardinality(search_sticker_by_unique_id(byAlias, uid)) = 1
        /\ Cardinality(search_sticker_by_unique_id(bySet, uid)) = 1
        /\ a.user_id = u /\ a.alias = t /\ a.set_alias = r.set_alias
        /\ b.user_id = u /\ b.set_alias = t /\ b.alias = r.alias
        /\ byAlias \ {a} = tbl \ {r}
        /\ bySet \ {b} = tbl \ {r}
        /\ insert_or_update_sticker(byAlias, uid, f, u, t, NULL) = byAlias
        /\ insert_or_update_sticker(bySet, uid, f, u, NULL, t) = bySet

\* the captured stickers of the chat that update_alias_2 writes
Captured(c) ==
    IF Get(chat_data[c], "status") = "Bulk update alias"
    THEN IF Has(chat_data[c], "stickers") THEN chat_data[c]["stickers"] ELSE {}
    ELSE IF Has(chat_data[c], "sticker") THEN {chat_data[c]["sticker"]} ELSE {}

C6_Step(c, u, t) ==
    LET bulk == Get(chat_data[c], "status") = "Bulk update alias"
    IN  \A s \in Captured(c) :
            Stored(sticker, s.file_unique_id) =>
                LET r == RowOf(sticker, s.file_unique_id)
                    n == RowOf(sticker', s.file_unique_id)
                IN  /\ reply' = Said(c, "Succeeded.")
                    /\ n.user_id = u
                    /\ IF bulk THEN n.set_alias = t /\ n.alias = r.alias
                       ELSE n.alias = t /\ n.set_alias = r.set_alias

\* C6: insert_or_update_sticker on a stored unique_id does not fail; with only
\* an alias it sets owner and alias and keeps set_alias, with only a set_alias
\* it sets owner and set_alias and keeps alias; the same call again changes
\* nothing; no other row changes.  On every reachable table for every input,
\* and on every write of update_alias_2.
C6_UpsertRule ==
    /\ [](\A r \in sticker, u \in Users, f \in FileIds, t \in Texts :
            C6_Rule(sticker, r, u, f, t))
    /\ [][\A c \in Chats, u \in Users, t \in Texts :
            update_alias_2(c, u, t) => C6_Step(c, u, t)]_vars

\* a row that got its set_alias from one user kept it when the other user
\* wrote its alias
C6_Witness ==
    /\ reply = Said("g", "Succeeded.")
    /\ \E r \in sticker : r.user_id = 2 /\ r.alias = <<"c">> /\ r.set_alias = <<"d">>
    /\ \E r \in sticker : r.user_id = 1 /\ r.alias = NULL /\ r.set_alias = <<"d">>

\* C7: after update_alias_2 wrote a sticker that was stored before, the stored
\* file_id is the file_id of the sticker the update was made with.
C7_RefIdFreshness ==
    [][\A c \in Chats, u \in Users, t \in Texts :
        update_alias_2(c, u, t) =>
            \A s \in Captured(c) :
                Stored(sticker, s.file_unique_id) =>
                    RowOf(sticker', s.file_unique_id).file_id = s.file_id]_vars

(***************************************************************************)
(* The trending job: properties.                                           *)
(***************************************************************************)
\* the usage log the latest run read, and the ranking it computes from it
LogOfRun == SubSeq(chosen, 1, job.seen)
RankingOfRun == UNION {UserRows(LogOfRun, u, job.now) : u \in Users}
RunBegan == job.before /= EmptyDict
Completed == job.pc = "done" \/ (job.pc = "idle" /\ job.last = "updated")

\* C3: from the start of a scoring run on, whenever a handler can look the
\* ranking up, TABLE trending is there and holds either the rows it held
\* before the run or all the rows the run computes.
C3_AtomicSwap ==
    Awaiting /\ RunBegan =>
        /\ Has(tables, "trending")
        /\ Has(job.before, "trending")
        /\ tables["trending"] \in {job.before["trending"], RankingOfRun}

\* C4: after a run that raised inside the loop over the users, TABLE trending
\* holds what it held before the run and there is no TABLE trending_tmp.
C4_FailureLeavesNoStaging ==
    job.last = "failed" /\ job.at = "loop" =>
        /\ Has(tables, "trending")
        /\ tables["trending"] = job.before["trending"]
        /\ ~Has(tables, "trending_tmp")

InWindow(r) == r.chosen_time >= job.now - WindowDays * TicksPerDay

\* C9: after a completed run TABLE trending has a row for (user, item) exactly
\* when the log the run read has an event of that user and item not older than
\* 90 days at the time of the run, and it is the ranking computed from the
\* events inside the window alone; rows of the table before the run are kept
\* only under that condition.
C9_ScoringWindow ==
    Completed =>
        /\ Has(tables, "trending")
        /\ \A u \in Users, i \in Items :
            (\E r \in tables["trending"] : r.user_id = u /\ r.file_unique_id = i)
            <=> (\E k \in 1..job.seen :
                    /\ chosen[k].user_id = u /\ chosen[k].file_unique_id = i
                    /\ InWindow(chosen[k]))
        /\ tables["trending"] =
            UNION {UserRows(SelectSeq(LogOfRun, InWindow), u, job.now) : u \in Users}

\* a run at tick 181 dropped the row of Y, used at tick 0, that the table held
\* before, and kept Z, used at tick 1, exactly 90 days before the run
C9_Witness ==
    /\ Completed
    /\ job.now = 181
    /\ chosen = <<ChosenRow("Y", 1, 0), ChosenRow("Z", 1, 1)>>
    /\ \E r \in job.before["trending"] : r.user_id = 1 /\ r.file_unique_id = "Y"
    /\ tables["trending"] = {TrendingRow("Z", 1, 0)}

\* scenario C: user 1 picked Y on day 0 and Z on day 10, nothing else is in
\* the log, and the latest run, at day 11, completed
ScenarioC ==
    /\ chosen = <<ChosenRow("Y", 1, 0), ChosenRow("Z", 1, 10 * TicksPerDay)>>
    /\ job.now = 11 * TicksPerDay
    /\ job.seen = 2
    /\ Completed

Ahead(results, a, b) ==
    \E i, j \in 1..Len(results) : i < j /\ results[i][1] = a /\ results[j][1] = b

\* C10 as stated: in scenario C the query "%" of the user answers with Y
\* ahead of Z.
C10_YAheadOfZ ==
    [][ScenarioC /\ inlinequery_trending(1, <<"%">>) =>
            /\ Has(reply', "results")
            /\ Ahead(reply'.results, "Y", "Z")]_vars

\* C10, amended: in scenario C the query "%" of the user answers with Z, the
\* item used more recently, ahead of Y: exactly Z, then Y.
C10_ZAheadOfY ==
    [][ScenarioC /\ inlinequery_trending(1, <<"%">>) =>
            /\ Has(reply', "results")
            /\ Ahead(reply'.results, "Z", "Y")
            /\ reply'.results = << <<"Z", "f1">>, <<"Y", "f1">> >>]_vars

\* the answer to "%" in scenario C, which is also stored as last_results
C10_Witness ==
    /\ ScenarioC
    /\ Has(reply, "results") /\ reply.user = 1
    /\ Len(reply.results) = 2
    /\ Has(user_data[1], "last_results")
    /\ user_data[1]["last_results"] = reply.results

(***************************************************************************)
(* Inline queries: properties.                                             *)
(***************************************************************************)
\* the trending stickers of user u as a lookup finds them now
Ranked(u) ==
    IF Has(tables, "trending") THEN search_trending_sticker(sticker, tables["trending"], u)
    ELSE <<>>
Results(r) == IF Has(r, "results") THEN r.results ELSE <<>>

\* C11 as stated: an empty query is answered with exactly the first of the
\* user's trending stickers when there is one, and with nothing otherwise,
\* whatever the user asked before.
C11_EmptyQueryTopRanked ==
    [][\A u \in Users : inlinequery(u, <<>>) =>
            Results(reply') = IF Ranked(u) = <<>> THEN <<>> ELSE <<Ranked(u)[1]>>]_vars

\* C11, amended: an empty query is answered with the results of the user's
\* latest query that had results, when there is one; otherwise with exactly
\* the first of the user's trending stickers when there is one, and with
\* nothing otherwise.
C11_EmptyQueryLastOrTop ==
    [][\A u \in Users : inlinequery(u, <<>>) =>
            Results(reply') =
                IF Has(user_data[u], "last_results") THEN user_data[u]["last_results"]
                ELSE IF Ranked(u) = <<>> THEN <<>> ELSE <<Ranked(u)[1]>>]_vars

\* an empty query was answered with the two results of an earlier "%", while
\* the first trending sticker is another by now
\* an empty query was answered with the two results of the query before it
C11_Witness ==
    /\ Has(reply, "results") /\ reply.query = <<>>
    /\ Len(reply.results) = 2
    /\ Has(user_data[reply.user], "last_results")
    /\ reply.results = user_data[reply.user]["last_results"]

(***************************************************************************)
(* The bulk workflow: properties.                                          *)
(***************************************************************************)
\* the text answers the "New set alias is?" prompt of chat c
BulkPending(c) ==
    /\ Get(chat_data[c], "status") = "Bulk update alias"
    /\ Has(chat_data[c], "stickers")

AliasOf(tbl, uid) == IF Stored(tbl, uid) THEN RowOf(tbl, uid).alias ELSE NULL

\* C12: scenario D.  The text T that ends a bulk workflow (/bulk, item, text T)
\* stores set_alias = T on every item of the captured set and leaves the
\* personal alias of each as it was: NULL on the items that had no row.
C12_BulkSetsSetAliasOnly ==
    [][\A c \in Chats, u \in Users, t \in Texts :
        BulkPending(c) /\ update_alias_2(c, u, t) =>
            \A s \in chat_data[c]["stickers"] :
                /\ Stored(sticker', s.file_unique_id)
                /\ RowOf(sticker', s.file_unique_id).set_alias = t
                /\ AliasOf(sticker', s.file_unique_id) = AliasOf(sticker, s.file_unique_id)]_vars

\* a bulk workflow has stored the set alias "d" on both items: Y keeps the
\* alias "c" it had, Z was not stored before and has none
C12_Witness ==
    /\ IsReply("g", {"Succeeded."})
    /\ \A i \in Items : Stored(sticker, i) /\ RowOf(sticker, i).set_alias = <<"d">>
    /\ RowOf(sticker, "Y").alias = <<"c">>
    /\ RowOf(sticker, "Z").alias = NULL

(***************************************************************************)
(* Alias queries: properties.                                              *)
(***************************************************************************)
\* the text answers the "New alias is?" prompt of chat c
SinglePending(c) ==
    /\ Get(chat_data[c], "status") /= "Bulk update alias"
    /\ Has(chat_data[c], "sticker")

\* the items of an answer
Ids(results) == {results[k][1] : k \in 1..Len(results)}

\* part is a piece of text
Contains(text, part) ==
    \E k \in 0..(Len(text) - Len(part)) :
        \A j \in 1..Len(part) : text[k + j] = part[j]

\* C13: scenario B.  The text A that ends a single-alias workflow on item X
\* makes A the alias of X, and an alias query q returns exactly the items whose
\* alias of the moment contains q: so a query for A returns X after the
\* workflow, and once a later workflow has given X the alias B, which does
\* not contain A, a query for A does not return X and a query for B does.
C13_AliasQueryFollowsAlias ==
    [][/\ \A c \in Chats, u \in Users, t \in Texts :
            SinglePending(c) /\ update_alias_2(c, u, t) =>
                AliasOf(sticker', chat_data[c]["sticker"].file_unique_id) = t
       /\ \A u \in Users, q \in Texts :
            inlinequery(u, q) =>
                Ids(Results(reply')) =
                    {i \in Items : /\ AliasOf(sticker, i) /= NULL
                                   /\ Contains(AliasOf(sticker, i), q)}]_vars

\* Y has the alias "d" after the alias "c", which Z has kept: the query "c" is
\* answered with Z alone
C13_Witness ==
    /\ Has(reply, "results") /\ reply.query = <<"c">>
    /\ Ids(reply.results) = {"Z"}
    /\ AliasOf(sticker, "Y") = <<"d">>
    /\ AliasOf(sticker, "Z") = <<"c">>

(***************************************************************************)
(* The favorite workflow: the round trip.                                  *)
(***************************************************************************)
Tally(d) == d["number_of_stickers"]

\* what a sticker of user u does to TABLE favorite and to the count of chat c
\* while the workflow of c is on a group
C14_Step(c, u, s) ==
    LET d == chat_data[c]
        row == FavoriteRow(u, s.file_unique_id, d["group_no"])
    IN  IF d["status"] = "Add favorite"
        THEN IF row \in favorite
             THEN \* a repeated add
                  /\ favorite' = favorite
                  /\ Tally(chat_data'[c]) = Tally(d)
             ELSE \* an add of an item that is in no group of the user
                  GroupsOf(u, s.file_unique_id) = {} =>
                      /\ favorite' = favorite \cup {row}
                      /\ Tally(chat_data'[c]) = Tally(d) + 1
        ELSE \* a delete of an item of the group
             row \in favorite =>
                /\ favorite' = favorite \ {row}
                /\ Tally(chat_data'[c]) = Tally(d) - 1

\* C14: scenario A.  In a favorite workflow on group n an add of X, which is
\* in no group of the user, puts the row (user, X, n) in and adds one to the
\* count; a repeated add of X to n changes neither; a delete of X from n takes
\* the row out and one off the count: the three in a row leave TABLE favorite
\* and the count as they were.  An add of X, then in no group, to another
\* group m puts the row (user, X, m) in.
C14_RoundTrip ==
    [][\A c \in Chats, u \in Users, i \in Items, f \in FileIds :
        Has(chat_data[c], "group_no") /\ update_favorite(c, u, Sticker(i, f)) =>
            C14_Step(c, u, Sticker(i, f))]_vars

\* the delete of chat g has brought TABLE favorite and the count of group 1
\* back to nothing
C14_Witness ==
    /\ IsReply("g", {"edited: Favorite n: count"})
    /\ chat_data["g"]["status"] = "Delete favorite"
    /\ chat_data["g"]["group_no"] = 1
    /\ Tally(chat_data["g"]) = 0
    /\ favorite = {}

(***************************************************************************)
(* Cancel: properties.                                                     *)
(***************************************************************************)
\* an alias prompt or a set alias prompt of chat c waits for its text
PromptPending(c) == Has(chat_data[c], "sticker") \/ Has(chat_data[c], "stickers")

\* a text message of user u in chat c, as text_decision routes it
TextMessage(c, u, t) == update_alias_2(c, u, t) \/ help_command(c, u)

\* C15: a press on Cancel while a prompt of the chat is pending leaves TABLE
\* sticker, live and committed, as it was and empties the chat_data of the
\* chat; a text message in a chat with empty chat_data leaves TABLE sticker as
\* it was.
C15_CancelClears ==
    [][\A c \in Chats :
        /\ PromptPending(c) /\ cancel_callback(c) =>
                /\ sticker' = sticker
                /\ committed' = committed
                /\ chat_data'[c] = EmptyDict
        /\ \A u \in Users, t \in Texts :
                chat_data[c] = EmptyDict /\ TextMessage(c, u, t) =>
                    /\ sticker' = sticker
                    /\ committed' = committed
                    /\ reply' = Said(c, "help")]_vars

\* the prompt for an alias of Z was cancelled: Y keeps the alias "c", Z has no
\* row
C15_Witness ==
    /\ IsReply("g", {"cancelled"})
    /\ chat_data["g"] = EmptyDict
    /\ AliasOf(sticker, "Y") = <<"c">>
    /\ ~Stored(sticker, "Z")

(***************************************************************************)
(* Text messages outside a prompt: properties.                             *)
(***************************************************************************)
\* the workflow of chat c waits for a text: the single-alias workflow with
\* its sticker captured, or the bulk workflow with its set captured
AwaitingText(c) ==
    LET status == Get(chat_data[c], "status")
    IN  \/ status = "Bulk update alias" /\ Has(chat_data[c], "stickers")
        \/ status \notin {"Bulk update alias"} \cup FavoriteStatus /\ Has(chat_data[c], "sticker")

\* C16: a text message in a chat whose workflow does not wait for a text is
\* answered with the help text: no error is raised, and the store and the
\* chat_data of the chat stay as they were.
C16_TextOutsidePrompt ==
    [][\A c \in Chats, u \in Users, t \in Texts :
        ~AwaitingText(c) /\ TextMessage(c, u, t) =>
            /\ reply' = Said(c, "help")
            /\ sticker' = sticker
            /\ committed' = committed
            /\ chat_data' = chat_data]_vars

(***************************************************************************)
(* The fresh marker: properties.                                           *)
(***************************************************************************)
\* C17: the answer to a query q followed by the marker " i" has the results
\* of the answer to q alone in the same state of the store and the session,
\* and a cache lifetime of zero.
C17_FreshMarker ==
    [][\A u \in Users, q \in BaseQueries :
        inlinequery(u, Fresh(q)) =>
            /\ Results(reply') = Results(InlineReply(u, q))
            /\ Has(reply', "results") => reply'.cache_time = "0"]_vars

(***************************************************************************)
(* Two invocations of the job: properties.                                 *)
(***************************************************************************)
\* invocation j is between create_trending and connection.close(), and it
\* has a trending_tmp of its own
InSection(j) == j.pc \in {"loop", "dropped", "renamed"}
HoldsStaging(j) == j.pc \in {"loop", "dropped"}

\* C18: of two invocations of the job, one of which began before the other
\* was over, at most one is between create_trending and the close of its
\* connection and at most one has a staging table; TABLE trending_tmp is
\* there only while an invocation is in that section; and neither invocation
\* ends in an exception: each one that began gets to its swap.
C18_RunsSerialized ==
    /\ ~(InSection(job) /\ InSection(waiting))
    /\ ~(HoldsStaging(job) /\ HoldsStaging(waiting))
    /\ Has(tables, "trending_tmp") => InSection(job)
    /\ job.last /= "failed" /\ waiting.last /= "failed"

\* the later invocation fills its staging table while the earlier one, its
\* swap committed, awaits its "System: Trending updated."
C18_Witness ==
    /\ job.pc = "loop"
    /\ waiting.pc = "done"
    /\ Has(tables, "trending_tmp")
    /\ UserRows(chosen, 1, job.now) /= {}

(***************************************************************************)
(* A favorite request without its group: properties.                       *)
(***************************************************************************)
\* a "Which favorite:" keyboard of chat c has not been pressed: the group of
\* the latest /favorite add or /favorite delete is not selected
GroupNotSelected(c) == buttons[c].group /= {}

\* C19: from a /favorite add or /favorite delete until a number of its
\* keyboard is pressed, a sticker sent to the chat inserts no row into TABLE
\* favorite and deletes none; so a request made while an earlier favorite
\* workflow is open does not apply stickers to the group of the earlier one.
C19_NoChangeBeforeGroup ==
    [][\A c \in Chats, u \in Users, i \in Items, f \in FileIds :
        GroupNotSelected(c) /\ update_favorite(c, u, Sticker(i, f)) =>
            favorite' = favorite]_vars

(***************************************************************************)
(* Provisioning: properties.                                               *)
(***************************************************************************)
\* FOREIGN KEY (file_unique_id) REFERENCES sticker, on the rows of favorite
References(stk, fav) == \A r \in fav : Stored(stk, r.file_unique_id)

\* an add of user u in chat c of an item that has no row in TABLE sticker
C20_Provision(c, u, s) ==
    LET d == chat_data[c]
    IN  /\ Has(d, "group_no")
        /\ Get(d, "status") = "Add favorite"
        /\ ~Stored(sticker, s.file_unique_id)
        /\ update_favorite(c, u, s)

\* C20: in every reachable state the rows of TABLE favorite reference rows
\* of TABLE sticker, in the tables of the connection and in the committed
\* ones.  An add of an item that has no row inserts the row of the item, with
\* the user as its owner and no alias and no set alias, and the row of the
\* relation, and adds one to the count of the chat.  Every commit makes all
\* the rows of both tables durable, so the two rows become durable in one
\* step.
C20_ProvisionBeforeRelation ==
    /\ [](References(sticker, favorite) /\ References(committed.sticker, committed.favorite))
    /\ [][/\ \A c \in Chats, u \in Users, i \in Items, f \in FileIds :
                C20_Provision(c, u, Sticker(i, f)) =>
                    /\ sticker' = sticker \cup {StickerRow(i, f, u, NULL, NULL)}
                    /\ favorite' = favorite \cup {FavoriteRow(u, i, chat_data[c]["group_no"])}
                    /\ Tally(chat_data'[c]) = Tally(chat_data[c]) + 1
          /\ committed' /= committed =>
                committed' = [sticker |-> sticker', favorite |-> favorite']]_vars

\* Finish has made the provisioned row of Y and its relation durable
C20_Witness ==
    /\ IsReply("g", {"Succeeded. Now Favorite n has count stickers."})
    /\ committed.sticker = {StickerRow("Y", "f1", 1, NULL, NULL)}
    /\ committed.favorite = {FavoriteRow(1, "Y", 1)}

(***************************************************************************)
(* The set-alias marker: properties.                                       *)
(***************************************************************************)
\* C21: a query of the set-alias marker and a text that is not empty is
\* answered with the stickers whose set alias contains the text, whatever the
\* text is: a digit and "%" too.
C21_SetAliasDispatch ==
    [][\A u \in Users, q \in MarkedQueries :
        inlinequery(u, q) =>
            Results(reply') = search_sticker_by_set_alias(sticker, Tail(q))]_vars

(***************************************************************************)
(* The ranks of a run: properties.                                         *)
(***************************************************************************)
\* the rows of user u in TABLE trending, and the score the latest run
\* accumulated for item i of user u from the events it read
RowsOfUser(u) == {r \in tables["trending"] : r.user_id = u}
ScoreOfRun(u, i) ==
    Accumulate(search_chosen_recent(LogOfRun, u, job.now - WindowDays * TicksPerDay),
               i, job.now)

\* after a completed run the ranks of the n rows of a user are 0..n-1 and
\* follow the accumulated scores
C22_Ranks ==
    Completed =>
        \A u \in Users :
            /\ {r.score : r \in RowsOfUser(u)} = 0..(Cardinality(RowsOfUser(u)) - 1)
            /\ \A a, b \in RowsOfUser(u) :
                ScoreOfRun(u, a.file_unique_id) > ScoreOfRun(u, b.file_unique_id)
                    => a.score > b.score

\* C22: after a completed run the stored ranks of a user with n ranked items
\* are the distinct values 0..n-1, an item with a strictly greater accumulated
\* score has a strictly greater rank, and the query "%" lists it before an
\* item with a strictly smaller accumulated score.
C22_RankAssignment ==
    /\ []C22_Ranks
    /\ [][\A u \in Users :
            Completed /\ inlinequery_trending(u, <<"%">>) =>
                \A a, b \in RowsOfUser(u) :
                    ScoreOfRun(u, a.file_unique_id) > ScoreOfRun(u, b.file_unique_id)
                        => Ahead(Results(reply'), a.file_unique_id, b.file_unique_id)]_vars

\* the query "%" after a run that found Y with the greater score: Y, rank 1,
\* is listed before Z, rank 0
C22_Witness ==
    /\ Completed
    /\ Has(reply, "results") /\ reply.query = <<"%">>
    /\ reply.results = << <<"Y", "f1">>, <<"Z", "f1">> >>
    /\ ScoreOfRun(1, "Y") > ScoreOfRun(1, "Z")
    /\ TrendingRow("Y", 1, 1) \in tables["trending"]
    /\ TrendingRow("Z", 1, 0) \in tables["trending"]

(***************************************************************************)
(* Equal scores: properties.                                               *)
(***************************************************************************)
\* the events of item i of user u the latest run read, and the time of the
\* latest of them
UsesOfRun(u, i) ==
    {k \in 1..job.seen : /\ chosen[k].user_id = u /\ chosen[k].file_unique_id = i
                         /\ InWindow(chosen[k])}
LastUse(u, i) ==
    CHOOSE t \in {chosen[k].chosen_time : k \in UsesOfRun(u, i)} :
        \A k \in UsesOfRun(u, i) : chosen[k].chosen_time <= t

\* C23: of two items of a user with equal accumulated scores after a run, the
\* query "%" lists the one whose latest event inside the window is the later
\* one ahead of the other, however many events each has.
C23_TieBreak ==
    [][\A u \in Users :
        Completed /\ inlinequery_trending(u, <<"%">>) =>
            \A a, b \in RowsOfUser(u) :
                /\ ScoreOfRun(u, a.file_unique_id) = ScoreOfRun(u, b.file_unique_id)
                /\ LastUse(u, a.file_unique_id) > LastUse(u, b.file_unique_id)
                => Ahead(Results(reply'), a.file_unique_id, b.file_unique_id)]_vars

(***************************************************************************)
(* Runs after a failed run: properties.                                    *)
(***************************************************************************)
\* C24: a run that begins after a run that raised with its staging table
\* created does not raise for that reason: create_trending gives it a
\* staging table of its own, and it goes on to its loop, its swap and its
\* commit unless a statement raises for a reason of its own.
C24_RecoveryAfterFailure ==
    [][create_trending => job'.pc = "loop" /\ job'.last /= "failed"]_vars

(***************************************************************************)
(* Commits: properties.                                                    *)
(***************************************************************************)
\* C25: the commit of an alias write and the commit of a usage event make no
\* row of TABLE favorite durable and take none away: what a favorite workflow
\* of another chat has added or deleted and not finished stays uncommitted.
C25_CommitIsolation ==
    [][\A c \in Chats, u \in Users :
        \/ \E t \in Texts : update_alias_2(c, u, t)
        \/ \E i \in Items : chosen_inline_result(u, i)
        => committed'.favorite = committed.favorite]_vars

====
